---- MODULE Spec2Model ----
(***************************************************************************)
(* State-machine model of the ArcGIS -> CoT feed synchronizer              *)
(* (ots_arcgis_feed): arcgis_client.py, cot_generator.py, feed_manager.py  *)
(* and the triggers of app.py.                                             *)
(***************************************************************************)
EXTENDS Integers, Sequences, FiniteSets, TLC

VARIABLES upstream, previous_uids, run, live, hist, built

vars == <<upstream, previous_uids, run, live, hist, built>>

-----------------------------------------------------------------------------
(* Bounds of the model *)

\* longest feature list an upstream feed holds
MaxFeatures == 2

-----------------------------------------------------------------------------
(* Values *)

\* Python's None, for numbers and for strings
None == -1
NoneS == "<None>"

PyStr(v) == IF v = None THEN "None" ELSE ToString(v)

\* truthiness of an int-or-None value
Truthy(v) == v # None /\ v # 0

\* Python's `a or b`
PyOr(a, b) == IF Truthy(a) THEN a ELSE b

\* str(v).strip() on the string values of the model
Strip(s) == IF s = " " THEN "" ELSE s

\* `not s or str(s).strip() == ""` for a string-or-None value
Blank(s) == s = NoneS \/ s = "" \/ Strip(s) = ""

-----------------------------------------------------------------------------
(* arcgis_client.py *)

SKIP_FIELDS == {"FID", "OBJECTID", "OBJECTID_1", "ObjectId", "SourceOID",
                "Shape__Length", "Shape__Len", "Shape__Area",
                "GlobalID", "SourceGlobalID", "IrwinID",
                "CreatedOnDateTime_dt", "ModifiedOnDateTime_dt"}

\* the attribute names a feature of the model carries, in the map's native order
IdKeys == <<"OBJECTID", "OBJECTID_1", "FID", "ObjectId">>
NameKeys == <<"InstallationName", "IncidentName", "Kind">>

\* the fallback name fields of parse_feature that the model's features carry
FallbackFields == <<"IncidentName", "InstallationName">>

\* A raw feature: geometry is missing, null or an object with x and y
\* (either may be None); attributes is an object or null; ids maps IdKeys to
\* int-or-None, names maps NameKeys to string-or-None.
Feature(gkind, x, y, akind, ids, names) ==
    [gkind |-> gkind, x |-> x, y |-> y, akind |-> akind, ids |-> ids, names |-> names]

RECURSIVE FirstNonBlank(_, _)
FirstNonBlank(names, fields) ==
    IF fields = <<>> THEN NoneS
    ELSE IF ~Blank(names[Head(fields)]) THEN names[Head(fields)]
    ELSE FirstNonBlank(names, Tail(fields))

ResolveCallsign(names, callsign_field) ==
    LET first == IF callsign_field \in DOMAIN names THEN names[callsign_field] ELSE NoneS
        second == IF Blank(first) THEN FirstNonBlank(names, FallbackFields) ELSE first
        third == IF Blank(second) THEN "Unknown" ELSE second
    IN  Strip(third)

RECURSIVE RemarksFrom(_, _)
RemarksFrom(names, keys) ==
    IF keys = <<>> THEN <<>>
    ELSE LET k == Head(keys)
             v == names[k]
             rest == RemarksFrom(names, Tail(keys))
         IN  IF k \in SKIP_FIELDS THEN rest
             ELSE IF v # NoneS /\ Strip(v) # "" /\ v # "-999999"
                  THEN <<k \o ": " \o v>> \o rest
                  ELSE rest

\* object_id = OBJECTID or OBJECTID_1 or FID or ObjectId
ResolveObjectId(ids) ==
    PyOr(PyOr(PyOr(ids["OBJECTID"], ids["OBJECTID_1"]), ids["FID"]), ids["ObjectId"])

\* mutant of Unusable: `if not lon or not lat`, a coordinate 0 taken for absent
UnusableFalsy(feature) ==
    \/ feature.gkind # "object"
    \/ ~Truthy(feature.x)
    \/ ~Truthy(feature.y)
    \/ feature.akind = "null"

\* parse_feature returns None: geometry null (the AttributeError of geom.get
\* is caught at line 88), geometry missing, x or y None (line 54), or
\* attributes null (the AttributeError of attr.get at line 57 is caught)
Unusable(feature) ==
    \/ feature.gkind # "object"
    \/ feature.x = None
    \/ feature.y = None
    \/ feature.akind = "null"

\* the dict parse_feature returns for a usable feature
parse_feature(feature, callsign_field) ==
    [lat |-> feature.y,
     lon |-> feature.x,
     object_id |-> ResolveObjectId(feature.ids),
     callsign |-> ResolveCallsign(feature.names, callsign_field),
     remarks |-> RemarksFrom(feature.names, NameKeys)]

\* What requests.get meets: the call raises (timeout, refused connection), or
\* answers with a status code and a body that is not JSON, a JSON array or a
\* JSON object; the object may hold an "error" member, and its "features"
\* member is a list, is missing or is null.
Response(raised, status_code, body, error, features) ==
    [raised |-> raised, status_code |-> status_code, body |-> body,
     error |-> error, features |-> features]

HTTP_OK == 200

\* the answer of a healthy FeatureServer
GoodResponse == Response(FALSE, HTTP_OK, "object", FALSE, "list")

\* the answers of a failing one
BadResponses ==
    {[GoodResponse EXCEPT !.raised = TRUE],
     [GoodResponse EXCEPT !.status_code = 500],
     [GoodResponse EXCEPT !.body = "text"],
     [GoodResponse EXCEPT !.body = "array"],
     [GoodResponse EXCEPT !.error = TRUE],
     [GoodResponse EXCEPT !.error = TRUE, !.features = "missing"]}

\* answers without an error whose payload holds no usable feature list
EmptyResponses ==
    {[GoodResponse EXCEPT !.features = "missing"],
     [GoodResponse EXCEPT !.features = "null"]}

\* mutant of fetch_arcgis_features: the "error" member not looked at
fetch_ignoring_error(response, payload) ==
    IF response.raised THEN <<>>
    ELSE IF response.status_code # HTTP_OK THEN <<>>
    ELSE IF response.body # "object" THEN <<>>
    ELSE IF response.features # "list" THEN <<>>
    ELSE payload

\* fetch_arcgis_features: payload is the feature list the server holds
fetch_arcgis_features(response, payload) ==
    IF response.raised THEN <<>>                          \* line 21 raises, lines 36-39
    ELSE IF response.status_code # HTTP_OK THEN <<>>      \* lines 23-25
    ELSE IF response.body = "text" THEN <<>>              \* r.json() raises, lines 36-39
    ELSE IF response.body = "array" THEN <<>>             \* data.get raises, lines 36-39
    ELSE IF response.error THEN <<>>                      \* lines 29-31
    ELSE IF response.features = "missing" THEN <<>>       \* the default of line 33
    ELSE IF response.features = "null" THEN <<>>          \* len(None) raises, lines 36-39
    ELSE payload                                          \* line 35

-----------------------------------------------------------------------------
(* cot_generator.py *)

UNKNOWN == "9999999.0"

Element(tag, attrib, text, children) ==
    [tag |-> tag, attrib |-> attrib, text |-> text, children |-> children]

generate_event(start_time, stale_time, uid, cot_type) ==
    Element("event",
            [version |-> "2.0", start |-> start_time, time |-> start_time,
             stale |-> stale_time, uid |-> uid, type |-> cot_type, how |-> "h-e"],
            NoneS, <<>>)

generate_point(event, lat, lon) ==
    [event EXCEPT !.children = Append(@,
        Element("point",
                [lat |-> lat, lon |-> lon, ce |-> UNKNOWN, hae |-> UNKNOWN, le |-> UNKNOWN],
                NoneS, <<>>))]

\* index of the first child with the tag, 0 when there is none (Element.find)
Find(children, tag) ==
    IF \E i \in 1..Len(children) : children[i].tag = tag
    THEN CHOOSE i \in 1..Len(children) :
            /\ children[i].tag = tag
            /\ \A j \in 1..(i - 1) : children[j].tag # tag
    ELSE 0

\* truth value of the result of Element.find: None and a childless element are false
FoundTruthy(children, tag) ==
    LET i == Find(children, tag) IN i # 0 /\ Len(children[i].children) > 0

\* mutant of DetailAdded: a detail container created on every call
DetailAddedAlways(kids, tag_name, attributes, text) ==
    Append(kids, Element("detail", <<>>, NoneS,
                         <<Element(tag_name, attributes, text, <<>>)>>))

\* the children of the event after add_detail: the detail child is looked up,
\* created and appended when the lookup is false, then given the new element
DetailAdded(kids, tag_name, attributes, text) ==
    LET reuse == FoundTruthy(kids, "detail")
        kids1 == IF reuse THEN kids
                 ELSE Append(kids, Element("detail", <<>>, NoneS, <<>>))
        at == IF reuse THEN Find(kids, "detail") ELSE Len(kids1)
        kids2 == [kids1 EXCEPT ![at].children =
                     Append(@, Element(tag_name, attributes, text, <<>>))]
        kids3 == IF FoundTruthy(kids2, "detail") THEN kids2
                 ELSE Append(kids2, kids2[at])
    IN  kids3

add_detail(event, tag_name, attributes, text) ==
    [event EXCEPT !.children = DetailAdded(@, tag_name, attributes, text)]

\* an event a caller of cot_generator builds, with the add_detail calls it
\* has made on it so far
Built(event, calls) == [event |-> event, calls |-> calls]

\* no event under construction outside the calls of a run (lines 96-102 of
\* feed_manager.py build and serialize the event in one step of the loop)
NoBuilt == Built(Element("event", <<>>, NoneS, <<>>), <<>>)

-----------------------------------------------------------------------------
(* Configuration: feeds, workers, upstream data *)

Feeds == {"f1", "f2"}

\* w1 is the APScheduler worker (scheduled_fetch_and_publish_feed), w2 the
\* HTTP request worker (fetch_one, clear_one)
Workers == {"w1", "w2"}

DefaultStaleMinutes == 1440
DefaultCotType == "a-f-G-U-C"
DefaultGroup == "__ANON__"
DefaultCallsignField == "InstallationName"

NoMapping == [k \in {} |-> ""]

\* feed_config after the .get defaults of fetch_and_publish_feed
FeedConfig(f) ==
    IF f = "f1"
    THEN [name |-> "f1", stale_minutes |-> DefaultStaleMinutes, cot_type |-> DefaultCotType,
          cot_type_field |-> NoneS, cot_type_mapping |-> NoMapping,
          group |-> DefaultGroup, callsign_field |-> DefaultCallsignField]
    ELSE IF f = "f2"
    THEN [name |-> f, stale_minutes |-> 5, cot_type |-> "a-h-G",
          cot_type_field |-> "Kind", cot_type_mapping |-> [k \in {"fire"} |-> "a-f-X"],
          group |-> "red", callsign_field |-> "IncidentName"]
    ELSE IF f = "f3"
    \* the selector names an attribute no feature carries
    THEN [name |-> f, stale_minutes |-> 60, cot_type |-> "a-n-G",
          cot_type_field |-> "Category", cot_type_mapping |-> [k \in {"fire"} |-> "a-f-X"],
          group |-> "blue", callsign_field |-> "Name"]
    \* a selector without a mapping
    ELSE [name |-> f, stale_minutes |-> DefaultStaleMinutes, cot_type |-> "a-u-G",
          cot_type_field |-> "Kind", cot_type_mapping |-> NoMapping,
          group |-> DefaultGroup, callsign_field |-> DefaultCallsignField]

OTS_NODE_ID == "node-1"
OTS_RABBITMQ_TTL == "86400000"

Ids(a, b, c, d) == [k \in {"OBJECTID", "OBJECTID_1", "FID", "ObjectId"} |->
                      IF k = "OBJECTID" THEN a ELSE IF k = "OBJECTID_1" THEN b
                      ELSE IF k = "FID" THEN c ELSE d]
Names(a, b, c) == [k \in {"InstallationName", "IncidentName", "Kind"} |->
                      IF k = "InstallationName" THEN a ELSE IF k = "IncidentName" THEN b ELSE c]

\* the features an upstream feed of the model can hold
FeatA == Feature("object", 5, 0, "object", Ids(1, None, None, None), Names("Base", NoneS, "fire"))
FeatB == Feature("object", 0, 5, "object", Ids(None, None, 2, None), Names(" ", "Fire1", "flood"))
FeatX == Feature("object", 5, None, "object", Ids(3, None, None, None), Names(NoneS, NoneS, NoneS))

Catalogue(f) == IF f = "f1" THEN <<FeatA, FeatX, FeatB>> ELSE <<FeatA>>

\* the sublists of a catalogue, at most MaxFeatures long
Sublists(cat) ==
    LET Pick(S) == [i \in 1..Cardinality(S) |->
                      cat[CHOOSE k \in S : Cardinality({j \in S : j < k}) = i - 1]]
    IN  {Pick(S) : S \in {T \in SUBSET (1..Len(cat)) : Cardinality(T) <= MaxFeatures}}

\* the feed's possible upstream lists
FeatureLists(f) == Sublists(Catalogue(f))

\* Features at the edges of parse_feature: identifier 0, no identifier and
\* both coordinates 0, the identifier of FeatA under another key and with
\* other attributes, attributes null, geometry missing
Feat0 == Feature("object", 1, 1, "object", Ids(0, None, 2, None), Names("Zero", NoneS, NoneS))
FeatZ == Feature("object", 0, 0, "object", Ids(None, None, None, None), Names(NoneS, NoneS, NoneS))
FeatA2 == Feature("object", 1, 1, "object", Ids(None, 1, None, None), Names("Other", "Inc", "flood"))
FeatN == Feature("object", 2, 2, "null", Ids(None, None, None, None), Names(NoneS, NoneS, NoneS))
FeatG == Feature("missing", None, None, "object", Ids(4, None, None, None), Names("G", NoneS, NoneS))

\* the feeds and catalogues of the runs that exercise parsing and encoding
InputFeeds == {"f1", "f2", "f3", "f4"}

InputCatalogue(f) ==
    IF f = "f1" THEN <<Feat0, FeatB, FeatA, FeatA2, FeatN, FeatG>>
    ELSE <<FeatA, FeatB, FeatZ>>

InputLists(f) == Sublists(InputCatalogue(f))

\* the readings of datetime.now(): events carry start and stale relative to it
Times == {0}

\* clock readings of the runs that exercise parsing and encoding
InputTimes == {0, 7}

-----------------------------------------------------------------------------
(* feed_manager.py *)

\* uid = f"arcgis-{feed_name}-{parsed['object_id']}"
Uid(feed_name, object_id) == "arcgis-" \o feed_name \o "-" \o PyStr(object_id)

\* mutant of DictSet: one set shared by every feed
DictSetAll(d, k, v) == [x \in {"f1", "f2"} |-> v]

\* dict.get(key, default) and dict[key] = value on _previous_uids
DictGet(d, k, default) == IF k \in DOMAIN d THEN d[k] ELSE default
DictSet(d, k, v) == [x \in DOMAIN d \cup {k} |-> IF x = k THEN v ELSE d[x]]

\* mutant of publish_to_exchanges: the firehose publish left out
publish_to_two(group, message, properties) ==
    << [exchange |-> "cot_parser", routing_key |-> "", body |-> message, properties |-> properties],
       [exchange |-> "groups", routing_key |-> group \o ".OUT", body |-> message, properties |-> properties] >>

\* the three basic_publish calls of _publish_to_exchanges, in order
publish_to_exchanges(group, message, properties) ==
    << [exchange |-> "cot_parser", routing_key |-> "", body |-> message, properties |-> properties],
       [exchange |-> "groups", routing_key |-> group \o ".OUT", body |-> message, properties |-> properties],
       [exchange |-> "firehose", routing_key |-> "", body |-> message, properties |-> properties] >>

Properties == [expiration |-> OTS_RABBITMQ_TTL]

Message(event) == [cot |-> event, uid |-> OTS_NODE_ID]

\* mutant of FeatureCotType: the mapping never consulted
FeatureCotTypeDefault(cfg, feature) == cfg.cot_type

\* per-feature CoT type: the mapping's value, else the feed default
FeatureCotType(cfg, feature) ==
    IF cfg.cot_type_field # NoneS /\ DOMAIN cfg.cot_type_mapping # {}
    THEN LET field_value == IF cfg.cot_type_field \in DOMAIN feature.names
                            THEN feature.names[cfg.cot_type_field] ELSE NoneS
         IN  IF field_value # NoneS
             THEN DictGet(cfg.cot_type_mapping, field_value, cfg.cot_type)
             ELSE cfg.cot_type
    ELSE cfg.cot_type

\* mutant of CreationEvent: the uid built from the clock reading
CreationEventClockUid(cfg, feature, now, stale_time) ==
    LET parsed == parse_feature(feature, cfg.callsign_field)
        e0 == generate_event(now, stale_time, Uid(cfg.name, now),
                             FeatureCotType(cfg, feature))
        e1 == generate_point(e0, PyStr(parsed.lat), PyStr(parsed.lon))
    IN  add_detail(e1, "contact", [callsign |-> parsed.callsign], NoneS)

\* the creation event of one usable feature (lines 96-102)
CreationEvent(cfg, feature, now, stale_time) ==
    LET parsed == parse_feature(feature, cfg.callsign_field)
        e0 == generate_event(now, stale_time, Uid(cfg.name, parsed.object_id),
                             FeatureCotType(cfg, feature))
        e1 == generate_point(e0, PyStr(parsed.lat), PyStr(parsed.lon))
        e2 == add_detail(e1, "contact", [callsign |-> parsed.callsign], NoneS)
    IN  IF parsed.remarks # <<>> THEN add_detail(e2, "remarks", <<>>, parsed.remarks) ELSE e2

\* the deletion event of a removed uid (lines 113-116 and 171-174)
DeletionEvent(uid, now, stale_time) ==
    generate_point(generate_event(now, stale_time, uid, "t-x-d-d"), UNKNOWN, UNKNOWN)

\* stale time of the deletion events of fetch_and_publish_feed (line 114 reuses stale_time)
FetchDeleteStale(r) == r.stale_time

\* stale time of clear_feed (line 165)
ClearStale(now) == now + 1

NoResult == [success |-> FALSE, feed |-> "", published |-> None, deleted |-> None,
             total_features |-> None, error |-> "none"]

FetchOkResult(f, published, deleted, total) ==
    [success |-> TRUE, feed |-> f, published |-> published, deleted |-> deleted,
     total_features |-> total, error |-> ""]

ClearOkResult(f, deleted) ==
    [success |-> TRUE, feed |-> f, published |-> None, deleted |-> deleted,
     total_features |-> None, error |-> ""]

FailResult(f, at) ==
    [success |-> FALSE, feed |-> f, published |-> None, deleted |-> None,
     total_features |-> None, error |-> at]

NoPrior == [valid |-> FALSE, feed |-> "", success |-> FALSE, fetched |-> FALSE]

\* _previous_uids = {} (line 15)
NoDict == [f \in {} |-> {}]

\* a worker that executes nothing
IdleRun ==
    [pc |-> "idle", op |-> "none", feed |-> "", before |-> NoDict, prior |-> NoPrior,
     seen |-> <<>>, response |-> GoodResponse, features |-> <<>>, i |-> 0, now |-> 0, stale_time |-> 0,
     published |-> 0, current_uids |-> {}, previous |-> {}, removed |-> {}, todo |-> {},
     conn |-> "none", chan |-> "none", sent |-> <<>>, committed |-> FALSE,
     result |-> NoResult]

\* the responses of the upstream server in the runs of the scheduler and of
\* the HTTP API: a healthy one and a failed request
Responses == {GoodResponse, [GoodResponse EXCEPT !.status_code = 500]}

AllUids == {Uid(f, o) : f \in Feeds, o \in {None, 0, 1, 2, 3}}

Init ==
    /\ upstream \in {u \in [Feeds -> UNION {FeatureLists(f) : f \in Feeds}] :
                        \A f \in Feeds : u[f] \in FeatureLists(f)}
    /\ previous_uids = NoDict
    /\ run = [w \in Workers |-> IdleRun]
    /\ live = {}
    /\ hist = NoPrior
    /\ built = NoBuilt

-----------------------------------------------------------------------------
(* Steps of fetch_and_publish_feed and clear_feed *)

Set(w, r) == run' = [run EXCEPT ![w] = r]

\* the uids whose event reached at least one exchange become live (creation)
\* or stop being live (deletion)
Deliver(uid, kind, k) ==
    IF k = 0 THEN live
    ELSE IF kind = "create" THEN live \cup {uid} ELSE live \ {uid}

\* the operation returns: the worker holds the result until the caller takes it
Finish(r, result) == [r EXCEPT !.pc = "done", !.result = result]

\* a scheduled or manual invocation of fetch_and_publish_feed(feed) begins
StartFetch(w, f) ==
    /\ run[w].pc = "idle"
    /\ Set(w, [IdleRun EXCEPT !.pc = "fetch", !.op = "fetch", !.feed = f,
                              !.before = previous_uids])
    /\ UNCHANGED <<upstream, previous_uids, live, hist, built>>

\* mutant of NoFeatures: `features is None`, never true of a list
NoFeaturesIsNone(features) == FALSE

\* line 56: `not features`
NoFeatures(features) == Len(features) = 0

\* lines 55-58: the GET meets a response; fetch_arcgis_features returns the
\* upstream list, or [] on any failure
Fetch(w, response) ==
    LET r == run[w]
        features == fetch_arcgis_features(response, upstream[r.feed])
        r1 == [r EXCEPT !.seen = upstream[r.feed], !.response = response,
                        !.features = features, !.prior = hist]
    IN  /\ r.pc = "fetch"
        /\ IF NoFeatures(features)
           THEN Set(w, Finish(r1, FetchOkResult(r.feed, 0, 0, 0)))
           ELSE Set(w, [r1 EXCEPT !.pc = "connect"])
        /\ UNCHANGED <<upstream, previous_uids, live, hist, built>>

\* lines 64-69 and 156-161: pika.BlockingConnection(...)
Connect(w) ==
    /\ run[w].pc = "connect"
    /\ Set(w, [run[w] EXCEPT !.pc = "channel", !.conn = "open"])
    /\ UNCHANGED <<upstream, previous_uids, live, hist, built>>

\* lines 70 and 162-168: rabbit_connection.channel(); clear_feed then reads the clock
Channel(w, now) ==
    LET r == run[w] IN
    /\ r.pc = "channel"
    /\ IF r.op = "fetch"
       THEN Set(w, [r EXCEPT !.pc = "declare", !.chan = "open"])
       ELSE Set(w, [r EXCEPT !.pc = IF r.todo = {} THEN "chclose" ELSE "delete",
                             !.chan = "open", !.now = now, !.stale_time = ClearStale(now)])
    /\ UNCHANGED <<upstream, previous_uids, live, hist, built>>

\* mutant of StaleTime: the default stale duration whatever the feed's
StaleTimeDefault(now, stale_minutes) == now + DefaultStaleMinutes

\* line 74: stale_time = now + timedelta(minutes=stale_minutes)
StaleTime(now, stale_minutes) == now + stale_minutes

\* lines 71-79: exchange_declare, then the run's timestamp pair
Declare(w, now) ==
    LET r == run[w] IN
    /\ r.pc = "declare"
    /\ Set(w, [r EXCEPT !.pc = IF Len(r.features) = 0 THEN "diff" ELSE "loop",
                        !.i = 1, !.now = now,
                        !.stale_time = StaleTime(now, FeedConfig(r.feed).stale_minutes),
                        !.published = 0, !.current_uids = {}])
    /\ UNCHANGED <<upstream, previous_uids, live, hist, built>>

\* mutant of AfterFeature: the loop left after its first feature
AfterFeatureBreak(r) == "diff"

\* line 81: the for loop goes on to the next feature, or ends
AfterFeature(r) == IF r.i = Len(r.features) THEN "diff" ELSE "loop"

\* lines 81-84: an unusable feature is skipped
SkipFeature(w) ==
    LET r == run[w] IN
    /\ r.pc = "loop"
    /\ Unusable(r.features[r.i])
    /\ Set(w, [r EXCEPT !.pc = AfterFeature(r), !.i = r.i + 1])
    /\ UNCHANGED <<upstream, previous_uids, live, hist, built>>

\* lines 86-107: one usable feature becomes a creation event on three exchanges
PublishFeature(w) ==
    LET r == run[w]
        cfg == FeedConfig(r.feed)
        feature == r.features[r.i]
        uid == Uid(cfg.name, parse_feature(feature, cfg.callsign_field).object_id)
        event == CreationEvent(cfg, feature, r.now, r.stale_time)
    IN  /\ r.pc = "loop"
        /\ ~Unusable(feature)
        /\ Set(w, [r EXCEPT !.pc = AfterFeature(r), !.i = r.i + 1,
                            !.current_uids = @ \cup {uid},
                            !.sent = @ \o publish_to_exchanges(cfg.group, Message(event), Properties),
                            !.published = @ + 1])
        /\ live' = Deliver(uid, "create", 3)
        /\ UNCHANGED <<upstream, previous_uids, hist, built>>

\* mutants of Removed: the subtraction forgotten; nothing found removed; the
\* operands swapped
RemovedAll(previous, current_uids) == previous
RemovedNone(previous, current_uids) == {}
RemovedSwapped(previous, current_uids) == current_uids \ previous

\* line 111: removed = previous - current_uids
Removed(previous, current_uids) == previous \ current_uids

\* lines 110-111: the diff against the remembered set
Diff(w) ==
    LET r == run[w]
        previous == DictGet(previous_uids, r.feed, {})
        removed == Removed(previous, r.current_uids)
    IN  /\ r.pc = "diff"
        /\ Set(w, [r EXCEPT !.pc = IF removed = {} THEN "commit" ELSE "delete",
                            !.previous = previous, !.removed = removed, !.todo = removed])
        /\ UNCHANGED <<upstream, previous_uids, live, hist, built>>

\* mutant of RememberedAfterDelete: the uid forgotten as its deletion goes out
RememberedAfterDeleteForgets(d, feed_name, uid) ==
    DictSet(d, feed_name, DictGet(d, feed_name, {}) \ {uid})

\* _previous_uids after one pass of a deletion loop: the loops only read it
RememberedAfterDelete(d, feed_name, uid) == d

\* lines 112-119 and 170-177: a deletion event for one uid, in set iteration order
PublishDelete(w, uid) ==
    LET r == run[w]
        cfg == FeedConfig(r.feed)
        stale == IF r.op = "fetch" THEN FetchDeleteStale(r) ELSE r.stale_time
        event == DeletionEvent(uid, r.now, stale)
        todo == r.todo \ {uid}
        next == IF todo # {} THEN "delete" ELSE IF r.op = "fetch" THEN "commit" ELSE "chclose"
    IN  /\ r.pc = "delete"
        /\ uid \in r.todo
        /\ Set(w, [r EXCEPT !.pc = next, !.todo = todo,
                            !.sent = @ \o publish_to_exchanges(cfg.group, Message(event), Properties)])
        /\ live' = Deliver(uid, "delete", 3)
        /\ previous_uids' = RememberedAfterDelete(previous_uids, r.feed, uid)
        /\ UNCHANGED <<upstream, hist, built>>

\* mutant of Committed: the remembered set left as the run found it
CommittedPrevious(r) == r.previous

\* mutant of Committed: the new set merged into the old one
CommittedMerge(r) == r.previous \cup r.current_uids

\* the set line 121 stores
Committed(r) == r.current_uids

\* line 121: _previous_uids[feed_name] = current_uids
Commit(w) ==
    LET r == run[w] IN
    /\ r.pc = "commit"
    /\ previous_uids' = DictSet(previous_uids, r.feed, Committed(r))
    /\ Set(w, [r EXCEPT !.pc = "chclose", !.committed = TRUE])
    /\ UNCHANGED <<upstream, live, hist, built>>

\* lines 123 and 179: channel.close()
ChannelClose(w) ==
    /\ run[w].pc = "chclose"
    /\ Set(w, [run[w] EXCEPT !.pc = "cclose", !.chan = "closed"])
    /\ UNCHANGED <<upstream, previous_uids, live, hist, built>>

\* lines 124-134: rabbit_connection.close() and the success result of a run;
\* line 180 for clear_feed
ConnectionClose(w) ==
    LET r == run[w]
        r1 == [r EXCEPT !.conn = "closed"]
    IN  /\ r.pc = "cclose"
        /\ IF r.op = "fetch"
           THEN Set(w, Finish(r1, FetchOkResult(r.feed, r.published, Cardinality(r.removed),
                                                Len(r.features))))
           ELSE Set(w, [r1 EXCEPT !.pc = "clearcommit"])
        /\ UNCHANGED <<upstream, previous_uids, live, hist, built>>

\* mutant of NothingRemembered: `previous is None`, never true of a set
NothingRememberedIsNone(previous) == FALSE

\* line 148: `not previous`
NothingRemembered(previous) == previous = {}

\* lines 147-149: clear_feed starts; nothing remembered is a no-op
StartClear(w, f) ==
    LET previous == DictGet(previous_uids, f, {})
        r == [IdleRun EXCEPT !.op = "clear", !.feed = f, !.before = previous_uids,
                             !.previous = previous, !.todo = previous]
    IN  /\ run[w].pc = "idle"
        /\ IF NothingRemembered(previous)
           THEN Set(w, Finish(r, ClearOkResult(f, 0)))
           ELSE Set(w, [r EXCEPT !.pc = "connect"])
        /\ UNCHANGED <<upstream, previous_uids, live, hist, built>>

\* mutant of Cleared: the remembered set kept
ClearedKeeps(r) == r.previous

\* the set line 183 stores
Cleared(r) == {}

\* lines 182-185: clear_feed empties the remembered set and returns
ClearCommit(w) ==
    LET r == run[w] IN
    /\ r.pc = "clearcommit"
    /\ previous_uids' = DictSet(previous_uids, r.feed, Cleared(r))
    /\ Set(w, Finish([r EXCEPT !.committed = TRUE], ClearOkResult(r.feed, Cardinality(r.previous))))
    /\ UNCHANGED <<upstream, live, hist, built>>

\* the steps that call the broker or the serializer and so can raise
CanRaise(r) == r.pc \in {"connect", "channel", "declare", "delete", "chclose", "cclose"}
               \/ (r.pc = "loop" /\ ~Unusable(r.features[r.i]))

\* lines 136-139 and 187-190: a step raises after k of its three publishes
\* went out; the except clause returns the failure result
Raise(w, k) ==
    LET r == run[w]
        cfg == FeedConfig(r.feed)
        publishing == r.pc \in {"loop", "delete"}
        uid == IF r.pc = "loop"
               THEN Uid(cfg.name, parse_feature(r.features[r.i], cfg.callsign_field).object_id)
               ELSE CHOOSE u \in r.todo : TRUE
        event == IF r.pc = "loop"
                 THEN CreationEvent(cfg, r.features[r.i], r.now, r.stale_time)
                 ELSE DeletionEvent(uid, r.now,
                                    IF r.op = "fetch" THEN FetchDeleteStale(r) ELSE r.stale_time)
        out == publish_to_exchanges(cfg.group, Message(event), Properties)
    IN  /\ r.pc # "idle" /\ r.pc # "done"
        /\ CanRaise(r)
        /\ IF publishing
           THEN /\ Set(w, Finish([r EXCEPT !.sent = @ \o SubSeq(out, 1, k),
                                          !.current_uids = IF r.pc = "loop" THEN @ \cup {uid} ELSE @],
                                 FailResult(r.feed, r.pc)))
                /\ live' = Deliver(uid, IF r.pc = "loop" THEN "create" ELSE "delete", k)
           ELSE /\ k = 0
                /\ Set(w, Finish(r, FailResult(r.feed, r.pc)))
                /\ live' = live
        /\ UNCHANGED <<upstream, previous_uids, hist, built>>

\* the caller takes the result; the invocation's frame is gone
Return(w) ==
    LET r == run[w] IN
    /\ r.pc = "done"
    /\ Set(w, IdleRun)
    /\ hist' = IF r.op = "fetch"
               THEN [valid |-> TRUE, feed |-> r.feed, success |-> r.result.success,
                     fetched |-> r.features = r.seen]
               ELSE NoPrior
    /\ UNCHANGED <<upstream, previous_uids, live, built>>

\* the upstream FeatureServer's content changes
UpstreamChange(f, l) ==
    /\ l # upstream[f]
    /\ upstream' = [upstream EXCEPT ![f] = l]
    /\ hist' = IF hist.feed = f THEN NoPrior ELSE hist
    /\ UNCHANGED <<previous_uids, run, live, built>>

\* the process restarts: _previous_uids is rebuilt empty (line 15), running
\* invocations are gone; markers already delivered stay with the consumers
Restart ==
    /\ previous_uids # NoDict \/ \E w \in Workers : run[w].pc # "idle"
    /\ previous_uids' = NoDict
    /\ run' = [w \in Workers |-> IdleRun]
    /\ hist' = NoPrior
    /\ UNCHANGED <<upstream, live, built>>

Quiet == \A w \in Workers : run[w].pc = "idle"

\* one invocation at a time: an operation starts only when no other is executing
Next ==
    \/ \E f \in Feeds : Quiet /\ StartFetch("w1", f)
    \/ \E f \in Feeds : Quiet /\ StartFetch("w2", f)
    \/ \E f \in Feeds : Quiet /\ StartClear("w2", f)
    \/ \E w \in Workers, response \in Responses : Fetch(w, response)
    \/ \E w \in Workers : Connect(w)
    \/ \E w \in Workers, now \in Times : Channel(w, now)
    \/ \E w \in Workers, now \in Times : Declare(w, now)
    \/ \E w \in Workers : SkipFeature(w)
    \/ \E w \in Workers : PublishFeature(w)
    \/ \E w \in Workers : Diff(w)
    \/ \E w \in Workers : \E uid \in run[w].todo : PublishDelete(w, uid)
    \/ \E w \in Workers : Commit(w)
    \/ \E w \in Workers : ChannelClose(w)
    \/ \E w \in Workers : ConnectionClose(w)
    \/ \E w \in Workers : ClearCommit(w)
    \/ \E w \in Workers, k \in 0..2 : Raise(w, k)
    \/ \E w \in Workers : Return(w)
    \/ \E f \in Feeds : \E l \in FeatureLists(f) : Quiet /\ UpstreamChange(f, l)
    \/ Restart

Spec == Init /\ [][Next]_vars

\* the uids a run derives from a fetched list (lines 81-87)
CurrentUids(f, features) ==
    {Uid(f, parse_feature(features[i], FeedConfig(f).callsign_field).object_id) :
        i \in {j \in 1..Len(features) : ~Unusable(features[j])}}

\* the remembered sets that runs executed one at a time leave behind: a feed
\* never run has no entry, a run commits the uids of the list it fetched,
\* clear_feed commits the empty set
QuietSets(f) == {{}} \cup {CurrentUids(f, l) : l \in FeatureLists(f)}
QuietDicts ==
    UNION {{d \in [D -> UNION {QuietSets(f) : f \in Feeds}] :
               \A f \in D : d[f] \in QuietSets(f)} : D \in SUBSET Feeds}

\* the upstream lists of the interleaved runs: the lists of usable features,
\* and the lists of one feature, usable or not
ConcLists(f) ==
    {l \in FeatureLists(f) : Len(l) <= 1 \/ \A i \in 1..Len(l) : ~Unusable(l[i])}

\* a state between invocations, every remembered marker live
ConcInit ==
    /\ upstream \in {u \in [Feeds -> UNION {FeatureLists(f) : f \in Feeds}] :
                        \A f \in Feeds : u[f] \in ConcLists(f)}
    /\ previous_uids \in QuietDicts
    /\ run = [w \in Workers |-> IdleRun]
    /\ live = UNION {previous_uids[f] : f \in DOMAIN previous_uids}
    /\ hist = NoPrior
    /\ built = NoBuilt

\* some invocation is about to send its GET to feed f
AboutToFetch(f) == \E w \in Workers : run[w].pc = "fetch" /\ run[w].feed = f

\* The scheduler's job of feed f1 and an HTTP request (fetch_one or clear_one
\* of any feed) run on their own threads: each worker executes one invocation,
\* started whatever the other is doing, and their steps interleave.  The
\* upstream changes only where a GET can see it.
ConcNext ==
    \/ StartFetch("w1", "f1")
    \/ \E f \in Feeds : StartFetch("w2", f)
    \/ \E f \in Feeds : StartClear("w2", f)
    \/ \E w \in Workers, response \in Responses : Fetch(w, response)
    \/ \E w \in Workers : Connect(w)
    \/ \E w \in Workers, now \in Times : Channel(w, now)
    \/ \E w \in Workers, now \in Times : Declare(w, now)
    \/ \E w \in Workers : SkipFeature(w)
    \/ \E w \in Workers : PublishFeature(w)
    \/ \E w \in Workers : Diff(w)
    \/ \E w \in Workers : \E uid \in run[w].todo : PublishDelete(w, uid)
    \/ \E w \in Workers : Commit(w)
    \/ \E w \in Workers : ChannelClose(w)
    \/ \E w \in Workers : ConnectionClose(w)
    \/ \E w \in Workers : ClearCommit(w)
    \/ \E w \in Workers, k \in 0..2 : Raise(w, k)
    \/ \E f \in Feeds : \E l \in ConcLists(f) : AboutToFetch(f) /\ UpstreamChange(f, l)

ConcSpec == ConcInit /\ [][ConcNext]_vars

\* One feed holds features, nothing is remembered: the process has just started
InputInit ==
    /\ \E f \in InputFeeds : \E l \in InputLists(f) :
          upstream = [g \in InputFeeds |-> IF g = f THEN l ELSE <<>>]
    /\ previous_uids = NoDict
    /\ run = [w \in Workers |-> IdleRun]
    /\ live = {}
    /\ hist = NoPrior
    /\ built = NoBuilt

\* Two consecutive runs over inputs at the edges of parse_feature, of the type
\* mapping and of fetch_arcgis_features: the scheduled run, then, once it has
\* returned, a manually triggered one; between them the clock moves and the
\* feed may lose its first features.
InputNext ==
    \/ \E f \in InputFeeds : StartFetch("w1", f)
    \/ \E f \in InputFeeds : run["w1"].pc = "done" /\ StartFetch("w2", f)
    \/ \E w \in Workers, response \in {GoodResponse} \cup BadResponses \cup EmptyResponses :
          Fetch(w, response)
    \/ \E w \in Workers : Connect(w)
    \/ \E w \in Workers, now \in InputTimes : Declare(w, now)
    \/ \E w \in Workers : Channel(w, 0)
    \/ \E w \in Workers : SkipFeature(w)
    \/ \E w \in Workers : PublishFeature(w)
    \/ \E w \in Workers : Diff(w)
    \/ \E w \in Workers : \E uid \in run[w].todo : PublishDelete(w, uid)
    \/ \E w \in Workers : Commit(w)
    \/ \E w \in Workers : ChannelClose(w)
    \/ \E w \in Workers : ConnectionClose(w)
    \/ \E w \in Workers, k \in 0..2 : Raise(w, k)
    \/ \E f \in InputFeeds :
          /\ run["w1"].pc = "done" /\ run["w2"].pc = "idle"
          /\ upstream[f] # <<>>
          /\ UpstreamChange(f, Tail(upstream[f]))

InputSpec == InputInit /\ [][InputNext]_vars

\* invocations that execute one at a time and all return success: no step
\* raises and the process is not restarted in between
SuccessNext ==
    \/ \E f \in Feeds : Quiet /\ StartFetch("w1", f)
    \/ \E f \in Feeds : Quiet /\ StartFetch("w2", f)
    \/ \E f \in Feeds : Quiet /\ StartClear("w2", f)
    \/ \E w \in Workers, response \in Responses : Fetch(w, response)
    \/ \E w \in Workers : Connect(w)
    \/ \E w \in Workers, now \in Times : Channel(w, now)
    \/ \E w \in Workers, now \in Times : Declare(w, now)
    \/ \E w \in Workers : SkipFeature(w)
    \/ \E w \in Workers : PublishFeature(w)
    \/ \E w \in Workers : Diff(w)
    \/ \E w \in Workers : \E uid \in run[w].todo : PublishDelete(w, uid)
    \/ \E w \in Workers : Commit(w)
    \/ \E w \in Workers : ChannelClose(w)
    \/ \E w \in Workers : ConnectionClose(w)
    \/ \E w \in Workers : ClearCommit(w)
    \/ \E w \in Workers : Return(w)
    \/ \E f \in Feeds : \E l \in FeatureLists(f) : Quiet /\ UpstreamChange(f, l)

SuccessSpec == Init /\ [][SuccessNext]_vars

\* clear_feed called, and called again for the same feed once the first call
\* has returned; the first call's frame is kept as the record of what it did
ClearInit ==
    /\ upstream = [f \in Feeds |-> <<>>]
    /\ previous_uids \in QuietDicts
    /\ run = [w \in Workers |-> IdleRun]
    /\ live = UNION {previous_uids[f] : f \in DOMAIN previous_uids}
    /\ hist = NoPrior
    /\ built = NoBuilt

ClearNext ==
    \/ \E f \in Feeds : Quiet /\ StartClear("w1", f)
    \/ run["w1"].pc = "done" /\ StartClear("w2", run["w1"].feed)
    \/ \E w \in Workers : Connect(w)
    \/ \E w \in Workers, now \in Times : Channel(w, now)
    \/ \E w \in Workers : \E uid \in run[w].todo : PublishDelete(w, uid)
    \/ \E w \in Workers : ChannelClose(w)
    \/ \E w \in Workers : ConnectionClose(w)
    \/ \E w \in Workers : ClearCommit(w)
    \/ \E w \in Workers, k \in 0..2 : Raise(w, k)

ClearSpec == ClearInit /\ [][ClearNext]_vars

-----------------------------------------------------------------------------
(* add_detail called again and again on one event *)

\* most add_detail calls made on one event
MaxCalls == 3

\* the events add_detail receives: generate_event alone, and generate_event
\* followed by generate_point as in lines 96-99 of feed_manager.py
DetailEvents ==
    LET e == generate_event(0, 5, Uid("f1", 1), "a-f-G-U-C")
        d == generate_event(7, 8, Uid("f2", None), "t-x-d-d")
    IN  {e, generate_point(e, "2", "1"), d, generate_point(d, UNKNOWN, UNKNOWN)}

\* tag names, attribute dicts and texts of the calls: the two calls of
\* feed_manager.py (lines 100 and 102) and a child itself named detail
DetailTags == {"contact", "remarks", "detail"}
DetailAttributes == {<<>>, [callsign |-> "Unknown"]}
DetailTexts == {NoneS, "Kind: fire"}

DetailInit ==
    /\ upstream = [f \in Feeds |-> <<>>]
    /\ previous_uids = NoDict
    /\ run = [w \in Workers |-> IdleRun]
    /\ live = {}
    /\ hist = NoPrior
    /\ built \in {Built(e, <<>>) : e \in DetailEvents}

\* event = add_detail(event, tag_name, attributes, text)
AddDetail(tag_name, attributes, text) ==
    /\ Len(built.calls) < MaxCalls
    /\ built' = Built(add_detail(built.event, tag_name, attributes, text),
                      Append(built.calls, Element(tag_name, attributes, text, <<>>)))
    /\ UNCHANGED <<upstream, previous_uids, run, live, hist>>

DetailNext ==
    \E tag_name \in DetailTags, attributes \in DetailAttributes, text \in DetailTexts :
        AddDetail(tag_name, attributes, text)

DetailSpec == DetailInit /\ [][DetailNext]_vars

-----------------------------------------------------------------------------
(* Observations on a worker's publishes *)

Exchanges == {"cot_parser", "groups", "firehose"}

IsDeletion(m) == m.body.cot.attrib.type = "t-x-d-d"

\* how many publishes on exchange e carry a deletion (del) or creation event of uid u
EventCount(sent, e, u, del) ==
    Cardinality({j \in 1..Len(sent) : /\ sent[j].exchange = e
                                      /\ sent[j].body.cot.attrib.uid = u
                                      /\ IsDeletion(sent[j]) = del})

\* the event's only child is a point with five sentinel fields
SentinelPoint(event) ==
    /\ Len(event.children) = 1
    /\ event.children[1].tag = "point"
    /\ event.children[1].attrib =
         [lat |-> UNKNOWN, lon |-> UNKNOWN, ce |-> UNKNOWN, hae |-> UNKNOWN, le |-> UNKNOWN]

\* a successful run of fetch_and_publish_feed that fetched features has returned
FetchedAndSucceeded(r) ==
    r.pc = "done" /\ r.op = "fetch" /\ r.result.success /\ r.features # <<>>

-----------------------------------------------------------------------------
(* Claims *)

\* C2: a successful run with a non-empty fetch, started with remembered set P
\* and deriving the uids C from the usable features, publishes exactly one
\* deletion event per uid of P \ C and none for any other uid, reports
\* deleted = |P \ C|, publishes a creation event for every uid of C and leaves
\* the remembered set equal to C.
C2_DiffCorrect ==
    \A w \in Workers :
        LET r == run[w]
            P == DictGet(r.before, r.feed, {})
            C == CurrentUids(r.feed, r.features)
        IN  FetchedAndSucceeded(r) =>
              /\ \A u \in AllUids, e \in Exchanges :
                    EventCount(r.sent, e, u, TRUE) = IF u \in P \ C THEN 1 ELSE 0
              /\ r.result.deleted = Cardinality(P \ C)
              /\ \A u \in C, e \in Exchanges : EventCount(r.sent, e, u, FALSE) >= 1
              /\ r.feed \in DOMAIN previous_uids
              /\ previous_uids[r.feed] = C

\* a successful run that deleted one remembered uid and created another
C2_Witness ==
    \E w \in Workers :
        LET r == run[w]
            P == DictGet(r.before, r.feed, {})
            C == CurrentUids(r.feed, r.features)
        IN  FetchedAndSucceeded(r) /\ P \ C # {} /\ C \ P # {} /\ r.result.deleted = 1

\* C3: whenever fetch_and_publish_feed returns a failure result, the remembered
\* sets equal their value before the run started.
C3_FailureKeepsState ==
    \A w \in Workers :
        LET r == run[w]
        IN  (r.pc = "done" /\ r.op = "fetch" /\ ~r.result.success) =>
               previous_uids = r.before

\* C4: a run whose fetch returns an empty sequence returns success with
\* published = 0, deleted = 0, total_features = 0, opens no broker connection,
\* publishes nothing and leaves the remembered sets as they were.
C4_EmptyFetchNoOp ==
    \A w \in Workers :
        LET r == run[w]
        IN  (r.pc = "done" /\ r.op = "fetch" /\ r.features = <<>>) =>
              /\ r.result = FetchOkResult(r.feed, 0, 0, 0)
              /\ r.conn = "none" /\ r.chan = "none"
              /\ r.sent = <<>>
              /\ previous_uids = r.before

\* a run returned on an empty fetch while the feed's remembered set is not empty
C4_Witness ==
    \E w \in Workers :
        LET r == run[w]
        IN  /\ r.pc = "done" /\ r.op = "fetch" /\ r.features = <<>>
            /\ DictGet(previous_uids, r.feed, {}) # {}

\* C6: a successful clear_feed on a feed whose remembered set is S (non-empty)
\* publishes exactly one deletion event (type t-x-d-d, all-sentinel point) per
\* uid of S and no other event, reports deleted = |S| and leaves the feed's
\* remembered set empty.
C6_ClearDeletesAll ==
    \A w \in Workers :
        LET r == run[w]
            S == DictGet(r.before, r.feed, {})
        IN  (r.pc = "done" /\ r.op = "clear" /\ r.result.success /\ S # {}) =>
              /\ \A u \in AllUids, e \in Exchanges :
                    EventCount(r.sent, e, u, TRUE) = IF u \in S THEN 1 ELSE 0
              /\ \A j \in 1..Len(r.sent) :
                    IsDeletion(r.sent[j]) /\ SentinelPoint(r.sent[j].body.cot)
              /\ r.result.deleted = Cardinality(S)
              /\ r.feed \in DOMAIN previous_uids
              /\ previous_uids[r.feed] = {}

\* clear_feed returned success on a feed that remembered two uids
C6_Witness ==
    \E w \in Workers :
        LET r == run[w]
        IN  /\ r.pc = "done" /\ r.op = "clear" /\ r.result.success
            /\ Cardinality(DictGet(r.before, r.feed, {})) = 2

\* C9: every broker connection and channel an operation opened is closed when
\* the operation returns.
C9_AllClosed ==
    \A w \in Workers :
        run[w].pc = "done" => run[w].conn # "open" /\ run[w].chan # "open"

\* the three publishes of the j-th event of a log
Triple(sent, j) == SubSeq(sent, 3 * j - 2, 3 * j)

None0(n) == IF n = None THEN 0 ELSE n

\* C10: every event whose publish call returned went, with one body and one
\* set of properties, to cot_parser, to groups with routing key {group}.OUT and
\* to firehose, in that order and nowhere else; a successfully completed
\* operation made 3 x (published + deleted) broker publishes.
C10_ThreeDestinations ==
    \A w \in Workers :
        LET r == run[w]
            group == FeedConfig(r.feed).group
        IN  /\ \A j \in 1..(Len(r.sent) \div 3) :
                  LET t == Triple(r.sent, j)
                  IN  /\ t[1].exchange = "cot_parser" /\ t[1].routing_key = ""
                      /\ t[2].exchange = "groups" /\ t[2].routing_key = group \o ".OUT"
                      /\ t[3].exchange = "firehose" /\ t[3].routing_key = ""
                      /\ t[1].body = t[2].body /\ t[2].body = t[3].body
                      /\ t[1].properties = t[2].properties /\ t[2].properties = t[3].properties
            /\ (r.pc # "done" \/ r.result.success) => Len(r.sent) % 3 = 0
            /\ (r.pc = "done" /\ r.result.success) =>
                  Len(r.sent) = 3 * (None0(r.result.published) + r.result.deleted)

\* a successful run that published a creation and a deletion event
C10_Witness ==
    \E w \in Workers :
        LET r == run[w]
        IN  /\ r.pc = "done" /\ r.op = "fetch" /\ r.result.success
            /\ r.result.published >= 1 /\ r.result.deleted >= 1
            /\ Len(r.sent) >= 6

\* a run of fetch_and_publish_feed has returned success, the operation before
\* it was a run of the same feed, and the upstream feed did not change between
\* the two GETs
SecondRunSucceeded(r) ==
    /\ r.pc = "done" /\ r.op = "fetch" /\ r.result.success
    /\ r.prior.valid /\ r.prior.feed = r.feed

\* both runs got the same feature list from their GET
SameFetch(r) == r.prior.fetched = (r.features = r.seen)

\* C5 as claimed: the second of two runs in immediate succession against an
\* unchanged upstream feed reports deleted = 0, whatever the outcome of the first.
C5_Original ==
    \A w \in Workers :
        SecondRunSucceeded(run[w]) => run[w].result.deleted = 0

\* C5 amended: the second of two runs in immediate succession against an
\* unchanged upstream feed reports deleted = 0 when the first run returned
\* success and both runs fetched the same feature list.
C5_Idempotent ==
    \A w \in Workers :
        LET r == run[w]
        IN  (SecondRunSucceeded(r) /\ r.prior.success /\ SameFetch(r)) =>
               r.result.deleted = 0

\* the second run succeeded on a non-empty fetch after a first run that had
\* found the remembered set different from what it fetched
C5_Witness ==
    \E w \in Workers :
        LET r == run[w]
        IN  /\ SecondRunSucceeded(r) /\ r.prior.success /\ SameFetch(r)
            /\ r.features # <<>>
            /\ r.published >= 1
            /\ r.previous = r.current_uids

\* an invocation of fetch_and_publish_feed between its start and its commit
InRun(r) == r.op = "fetch" /\ r.pc \notin {"idle", "done"} /\ ~r.committed

\* C7: at most one invocation of fetch_and_publish_feed for a feed name is
\* between its start and its commit of the remembered set.
C7_MutualExclusion ==
    \A w, v \in Workers :
        (w # v /\ InRun(run[w]) /\ InRun(run[v])) => run[w].feed # run[v].feed

\* the entry of a feed in the dict: {} when it has none, else {its set}
Entry(d, f) == IF f \in DOMAIN d THEN {d[f]} ELSE {}

\* the worker executes an operation on a feed no other worker operates on
Alone(w) ==
    /\ run[w].pc # "idle"
    /\ \A v \in Workers \ {w} : run[v].pc = "idle" \/ run[v].feed # run[w].feed

\* what the operation of worker w alone makes of its feed's entry
OwnOutcome(r) ==
    IF r.committed
    THEN {IF r.op = "fetch" THEN CurrentUids(r.feed, r.features) ELSE {}}
    ELSE Entry(r.before, r.feed)

\* the feed's entry is what this operation alone makes of it, and the diff saw
\* the entry the operation started with
C8_AsIfAlone ==
    \A w \in Workers :
        LET r == run[w]
        IN  Alone(w) =>
              /\ Entry(previous_uids, r.feed) = OwnOutcome(r)
              /\ (r.op = "fetch" /\ r.committed) =>
                    r.previous = DictGet(r.before, r.feed, {})

\* a step changes a feed's entry only as the commit of an operation on that feed
C8_Frame ==
    \A f \in Feeds :
        Entry(previous_uids', f) # Entry(previous_uids, f) =>
            \E w \in Workers :
                /\ run[w].feed = f
                /\ run[w].pc \in {"commit", "clearcommit"}
                /\ run'[w].committed

\* C8: under any interleaving, an invocation for feed f never changes the
\* remembered set of a feed g # f, its diff sees only f's entry as it was when
\* the invocation started, and each feed's remembered set is what that feed's
\* operation alone makes of it.
C8_Independent == [](C8_AsIfAlone) /\ [][C8_Frame]_vars

\* a run of f1 and a clear of f2 are both about to write the dict
C8_Witness ==
    /\ run["w1"].pc = "commit" /\ run["w1"].feed = "f1"
    /\ run["w2"].pc = "clearcommit" /\ run["w2"].feed = "f2"
    /\ run["w1"].removed # {}

-----------------------------------------------------------------------------
(* Runs keep being triggered *)

\* a step of an invocation that has started, whatever its outcome
Progress ==
    \/ \E w \in Workers, response \in Responses : Fetch(w, response)
    \/ \E w \in Workers : Connect(w)
    \/ \E w \in Workers, now \in Times : Channel(w, now)
    \/ \E w \in Workers, now \in Times : Declare(w, now)
    \/ \E w \in Workers : SkipFeature(w)
    \/ \E w \in Workers : PublishFeature(w)
    \/ \E w \in Workers : Diff(w)
    \/ \E w \in Workers : \E uid \in run[w].todo : PublishDelete(w, uid)
    \/ \E w \in Workers : Commit(w)
    \/ \E w \in Workers : ChannelClose(w)
    \/ \E w \in Workers : ConnectionClose(w)
    \/ \E w \in Workers : ClearCommit(w)
    \/ \E w \in Workers, k \in 0..2 : Raise(w, k)
    \/ \E w \in Workers : Return(w)

\* the operations on feed f1 alone: its interval job, manual runs and clears
FairNext ==
    \/ Quiet /\ StartFetch("w1", "f1")
    \/ Quiet /\ StartFetch("w2", "f1")
    \/ Quiet /\ StartClear("w2", "f1")
    \/ Progress
    \/ \E l \in FeatureLists("f1") : Quiet /\ UpstreamChange("f1", l)
    \/ Restart

\* the interval job of the feed fires again and again (app.py lines 44-51),
\* and every invocation that started runs to its return
FairSpec ==
    /\ Init
    /\ [][FairNext]_vars
    /\ WF_vars(Progress)
    /\ SF_vars(Quiet /\ StartFetch("w1", "f1"))

\* the uids the upstream feeds hold now
UpstreamUids == UNION {CurrentUids(f, upstream[f]) : f \in Feeds}

\* the uids the feeds of the model can hold
FeedUids == UNION {CurrentUids(f, Catalogue(f)) : f \in Feeds}

\* C1 as claimed: once a creation event for u is published and u is no longer
\* in the upstream feed, a deletion event for u is eventually published (or u
\* is back upstream), over runs that return nothing, fail or follow a restart.
C1_Original ==
    \A u \in FeedUids :
        (u \in live /\ u \notin UpstreamUids) ~> (u \notin live \/ u \in UpstreamUids)

\* C1 amended: a uid leaves a feed's remembered set, other than by a process
\* restart, only in an invocation that has published a deletion event for it
\* on every exchange; so a remembered uid that left the upstream feed gets its
\* deletion event from the first run that fetches features and reaches its
\* commit, and a uid that is not remembered (its run failed before the commit,
\* or the process restarted) or whose feed returns zero features gets none.
C1_DroppedMeansDeleted ==
    [][\A f \in Feeds, u \in AllUids :
          (/\ u \in DictGet(previous_uids, f, {})
           /\ u \notin DictGet(previous_uids', f, {})
           /\ previous_uids' # NoDict) =>
              \E w \in Workers :
                  /\ run'[w].feed = f
                  /\ \A e \in Exchanges : EventCount(run'[w].sent, e, u, TRUE) >= 1]_vars

\* a run has committed a set that lacks a uid it found remembered, and the
\* uid's marker is gone
C1_Witness ==
    \E w \in Workers :
        LET r == run[w]
        IN  /\ r.op = "fetch" /\ r.committed /\ r.pc = "chclose"
            /\ r.removed # {}
            /\ r.removed \cap live = {}
            /\ r.removed \cap DictGet(previous_uids, r.feed, {}) = {}

-----------------------------------------------------------------------------
(* Event shapes *)

\* C11: every deletion event a run of fetch_and_publish_feed publishes has type
\* t-x-d-d, a point of five sentinel fields and a stale time one minute after
\* its start time, whatever the feed's stale duration.
C11_DeletionShape ==
    \A w \in Workers :
        LET r == run[w]
        IN  r.op = "fetch" =>
              \A j \in 1..Len(r.sent) :
                  IsDeletion(r.sent[j]) =>
                      LET e == r.sent[j].body.cot
                      IN  /\ SentinelPoint(e)
                          /\ e.attrib.stale = e.attrib.start + 1

-----------------------------------------------------------------------------
(* Parsing, type mapping and fetching, over the inputs of InputSpec *)

IsUsable(feature) == ~Unusable(feature)

\* the feature behind the j-th publish of a run, for a publish that carries a
\* creation event: creation events come first in a run's log, three publishes
\* each, one event per usable feature in list order
CreatedFrom(r, j) == SelectSeq(r.features, IsUsable)[(j + 2) \div 3]

\* the publishes of a run that carry creation events
Creations(r) == {j \in 1..Len(r.sent) : ~IsDeletion(r.sent[j])}

\* the value of a feature's attribute, None when the attribute is missing or null
Attribute(feature, name) ==
    IF name \in DOMAIN feature.names THEN feature.names[name] ELSE NoneS

\* C12: with a type selector and a mapping, a creation event's type is the
\* mapped value when the feature's selector value is a key of the mapping and
\* the feed's default type when the selector attribute is missing, null or
\* not a key; without a selector or without a mapping it is the default type.
C12_TypeResolution ==
    \A w \in Workers :
        LET r == run[w]
            cfg == FeedConfig(r.feed)
        IN  r.op = "fetch" =>
              \A j \in Creations(r) :
                  LET value == Attribute(CreatedFrom(r, j), cfg.cot_type_field)
                      type == r.sent[j].body.cot.attrib.type
                  IN  IF /\ cfg.cot_type_field # NoneS
                         /\ DOMAIN cfg.cot_type_mapping # {}
                         /\ value \in DOMAIN cfg.cot_type_mapping
                      THEN type = cfg.cot_type_mapping[value]
                      ELSE type = cfg.cot_type

\* the features behind the creation events of a run, with the event's type
TypedFeatures(r) ==
    {<<CreatedFrom(r, j), r.sent[j].body.cot.attrib.type>> : j \in Creations(r)}

\* two runs of a feed with a selector and a mapping have published the mapped
\* type for a mapped value and the default type for an unmapped one
C12_Witness ==
    /\ run["w1"].feed = "f2"
    /\ <<FeatA, "a-f-X">> \in TypedFeatures(run["w1"])
    /\ <<FeatB, "a-h-G">> \in TypedFeatures(run["w1"])
    /\ run["w2"].feed = "f2"
    /\ <<FeatB, "a-h-G">> \in TypedFeatures(run["w2"])

\* geometry is an object whose x and y are both present
HasXY(feature) == feature.gkind = "object" /\ feature.x # None /\ feature.y # None

\* the features a run has gone through so far
Processed(r) == 1..(r.i - 1)

FetchFailure(response) ==
    \/ response.raised
    \/ response.status_code # HTTP_OK
    \/ response.body # "object"
    \/ response.error

\* a run of fetch_and_publish_feed has received its response
Fetched(r) == r.op = "fetch" /\ r.pc # "fetch"

\* C14: fetch_arcgis_features never raises to its caller; it returns an empty
\* sequence when the status is not success, the body is not valid structured
\* data or the payload holds an "error" member, and otherwise the payload's
\* feature list (empty when the payload has none); each fetch failure makes
\* the run report success with zero counts.
C14_FetchNeverRaises ==
    \A w \in Workers :
        LET r == run[w]
        IN  Fetched(r) =>
              /\ r.result.error # "fetch"
              /\ FetchFailure(r.response) =>
                    /\ r.features = <<>>
                    /\ r.pc = "done"
                    /\ r.result = FetchOkResult(r.feed, 0, 0, 0)
              /\ ~FetchFailure(r.response) =>
                    r.features = IF r.response.features = "list" THEN r.seen ELSE <<>>

\* a run met a payload with an "error" member beside a non-empty feature
\* list and returned success with zero counts
C14_Witness ==
    \E w \in Workers :
        LET r == run[w]
        IN  /\ r.pc = "done" /\ r.op = "fetch"
            /\ r.response = [GoodResponse EXCEPT !.error = TRUE]
            /\ r.seen # <<>>
            /\ r.result = FetchOkResult(r.feed, 0, 0, 0)

-----------------------------------------------------------------------------
(* clear_feed with nothing remembered; order of a run's effects *)

\* C15: clear_feed on a feed whose remembered set is empty, or that has never
\* been run, returns success with deleted = 0, opens no broker connection,
\* publishes no event and leaves all remembered sets unchanged.
C15_ClearNothingNoOp ==
    \A w \in Workers :
        LET r == run[w]
        IN  (r.op = "clear" /\ DictGet(r.before, r.feed, {}) = {}) =>
              /\ r.pc = "done"
              /\ r.result = ClearOkResult(r.feed, 0)
              /\ r.conn = "none" /\ r.chan = "none"
              /\ r.sent = <<>>
              /\ previous_uids = r.before

\* clear_feed has returned on a feed that was never run while another feed
\* remembers uids
C15_Witness ==
    \E w \in Workers :
        LET r == run[w]
        IN  /\ r.op = "clear" /\ r.pc = "done"
            /\ r.feed \notin DOMAIN r.before
            /\ \E g \in DOMAIN previous_uids : previous_uids[g] # {}

-----------------------------------------------------------------------------
(* Entity uids and timestamps *)

\* the uid of the event in the j-th publish of a run
SentUid(r, j) == r.sent[j].body.cot.attrib.uid

\* C16: the uid of a creation event is a function of the feed name and the
\* feature's resolved object identifier only: whenever two creation events,
\* of one run or of two consecutive runs, come from features of the same feed
\* with the same resolved identifier, they carry the same uid, whatever the
\* clock readings, the other attributes and the remembered sets are.
C16_UidDeterministic ==
    \A v, w \in Workers :
        LET a == run[v]
            b == run[w]
        IN  (a.op = "fetch" /\ b.op = "fetch" /\ a.feed = b.feed) =>
              \A i \in Creations(a), j \in Creations(b) :
                  ResolveObjectId(CreatedFrom(a, i).ids) = ResolveObjectId(CreatedFrom(b, j).ids)
                      => SentUid(a, i) = SentUid(b, j)

\* two consecutive runs of a feed, at different clock readings and with
\* different remembered sets, have each published the unchanged feature FeatA,
\* and one has published FeatA2, which has the same identifier and other
\* attributes
C16_Witness ==
    LET a == run["w1"]
        b == run["w2"]
    IN  /\ a.pc = "done" /\ b.pc = "done" /\ a.feed = b.feed
        /\ a.result.success /\ b.result.success
        /\ a.now # b.now
        /\ a.previous # b.previous
        /\ \E i \in Creations(a), j \in Creations(b) :
              CreatedFrom(a, i) = FeatA /\ CreatedFrom(b, j) = FeatA
        /\ \E j \in Creations(b) : CreatedFrom(b, j) = FeatA2

\* C17: in one run of fetch_and_publish_feed every creation event is published
\* before any deletion event, and the feed's remembered set is replaced, in one
\* assignment, only after every feature was processed and every removed uid
\* got its deletion event: until then the remembered sets are those the run
\* started with, afterwards the feed's set is the run's complete current set.
C17_Ordering ==
    \A w \in Workers :
        LET r == run[w]
            P == DictGet(r.before, r.feed, {})
            C == CurrentUids(r.feed, r.features)
        IN  r.op = "fetch" =>
              /\ \A i, j \in 1..Len(r.sent) :
                    (i < j /\ IsDeletion(r.sent[i])) => IsDeletion(r.sent[j])
              /\ ~r.committed => previous_uids = r.before
              /\ r.committed =>
                    /\ previous_uids = DictSet(r.before, r.feed, C)
                    /\ r.i = Len(r.features) + 1
                    /\ r.todo = {}
                    /\ \A u \in P \ C, e \in Exchanges : EventCount(r.sent, e, u, TRUE) = 1

\* a run has just replaced the remembered set after going through two
\* features, publishing a creation event and then a deletion event
C17_Witness ==
    \E w \in Workers :
        LET r == run[w]
        IN  /\ r.op = "fetch" /\ r.pc = "chclose" /\ r.committed
            /\ Len(r.features) = 2
            /\ r.published >= 1
            /\ r.removed # {}
            /\ IsDeletion(r.sent[Len(r.sent)])

-----------------------------------------------------------------------------
(* Two interleaved runs of one feed *)

\* both workers ran fetch_and_publish_feed for one feed, both returned
\* success, and the remembered set is the one b stored: b committed last
BothDone(a, b) ==
    /\ a # b
    /\ run[a].op = "fetch" /\ run[b].op = "fetch"
    /\ run[a].feed = run[b].feed
    /\ run[a].pc = "done" /\ run[b].pc = "done"
    /\ run[a].result.success /\ run[b].result.success
    /\ DictGet(previous_uids, run[b].feed, {}) = run[b].current_uids

\* no publish of either run carries a deletion event for u
NeverDeleted(u) ==
    \A w \in Workers, e \in Exchanges : EventCount(run[w].sent, e, u, TRUE) = 0

\* a created its marker u, b did not, and u is neither remembered nor deleted
LostDeletion(a, b, u) ==
    /\ u \in run[a].current_uids \ run[b].current_uids
    /\ \A e \in Exchanges : EventCount(run[a].sent, e, u, FALSE) >= 1
    /\ u \notin DictGet(previous_uids, run[b].feed, {})
    /\ NeverDeleted(u)
    /\ u \in live

\* C18: when a scheduled and a manually triggered run of one feed interleave
\* and both complete, a uid that one run created and the run that committed
\* last did not fetch is deleted by that run only if it read the remembered
\* set after the other's commit, deleting a marker the other run has just
\* seen upstream; if it read the set before, the uid is absent from the
\* remembered set and never received a deletion event (lost deletion).  Such
\* a state is reachable.
C18_RaceOutcome ==
    \A a, b \in Workers :
        BothDone(a, b) =>
            \A u \in run[a].current_uids \ run[b].current_uids :
                IF u \in run[b].previous
                THEN \A e \in Exchanges : EventCount(run[b].sent, e, u, TRUE) = 1
                ELSE LostDeletion(a, b, u)

\* both runs completed and a marker that is no longer upstream stays live,
\* unremembered and without a deletion event
C18_Witness ==
    \E a, b \in Workers :
        /\ BothDone(a, b)
        /\ \E u \in AllUids : LostDeletion(a, b, u) /\ u \notin UpstreamUids

-----------------------------------------------------------------------------
(* Identifier resolution; the timestamp pair of a run *)

\* the first of the four identifier attributes whose value is not null
RECURSIVE FirstNonNull(_, _)
FirstNonNull(ids, keys) ==
    IF keys = <<>> THEN None
    ELSE IF ids[Head(keys)] # None THEN ids[Head(keys)]
    ELSE FirstNonNull(ids, Tail(keys))

\* C19: the object identifier of a creation event's uid is the first non-null
\* value among OBJECTID, OBJECTID_1, FID, ObjectId, the value 0 included, so
\* features of one feed with different first non-null identifiers get
\* different uids.
C19_FirstNonNull ==
    \A w \in Workers :
        LET r == run[w]
        IN  r.op = "fetch" =>
              /\ \A j \in Creations(r) :
                    SentUid(r, j) = Uid(r.feed, FirstNonNull(CreatedFrom(r, j).ids, IdKeys))
              /\ \A i, j \in Creations(r) :
                    FirstNonNull(CreatedFrom(r, i).ids, IdKeys)
                        # FirstNonNull(CreatedFrom(r, j).ids, IdKeys)
                    => SentUid(r, i) # SentUid(r, j)

\* every creation event of a run carries the run's pair, stale being start
\* plus the feed's stale duration, and nothing is published before the
\* channel is open and the pair is computed
OnePair ==
    \A w \in Workers :
        LET r == run[w]
            cfg == FeedConfig(r.feed)
        IN  r.op = "fetch" =>
              /\ \A j \in Creations(r) :
                    LET e == r.sent[j].body.cot.attrib
                    IN  /\ e.start = r.now /\ e.time = r.now
                        /\ e.stale = r.now + cfg.stale_minutes
              /\ r.pc \in {"fetch", "connect", "channel", "declare"} => r.sent = <<>>
              /\ r.sent # <<>> => r.chan # "none"

\* a run's pair changes only in the step after exchange_declare, with the
\* channel open
PairSetOnce ==
    \A w \in Workers :
        (/\ run[w].op = "fetch" /\ run'[w].op = "fetch"
         /\ <<run'[w].now, run'[w].stale_time>> # <<run[w].now, run[w].stale_time>>)
        => run[w].pc = "declare" /\ run[w].chan = "open" /\ run[w].sent = <<>>

\* C20: all creation events of one run carry the same start/time and the same
\* stale timestamp, stale = start + the feed's stale duration; the pair is
\* computed once per run, after the channel is opened and before the first
\* feature is processed.
C20_OnePairPerRun == [](OnePair) /\ [][PairSetOnce]_vars

\* a run of a feed with a stale duration of 5 minutes, at clock reading 7, has
\* published two creation events
C20_Witness ==
    \E w \in Workers :
        LET r == run[w]
        IN  /\ r.op = "fetch" /\ r.feed = "f2" /\ r.now = 7
            /\ r.published = 2
            /\ Cardinality(Creations(r)) = 6

\* the children of an event with the given tag, in document order
Tagged(children, tag) ==
    SelectSeq(children, LAMBDA c : c.tag = tag)

\* the children of an event that are no detail container, in document order
NotDetail(children) ==
    SelectSeq(children, LAMBDA c : c.tag # "detail")

\* C21: after any sequence of add_detail calls on one event, the event has
\* exactly one detail container, and the container holds one child per call,
\* in call order; without a call the event has no container, and the other
\* children of the event (its point) are as they were.
C21_OneDetailContainer ==
    LET containers == Tagged(built.event.children, "detail")
    IN  /\ built.calls = <<>> => containers = <<>>
        /\ built.calls # <<>> =>
               /\ Len(containers) = 1
               /\ containers[1].children = built.calls
               /\ built.event.children[Len(built.event.children)].tag = "detail"
        /\ Len(NotDetail(built.event.children)) <= 1
        /\ \A i \in 1..Len(NotDetail(built.event.children)) :
               NotDetail(built.event.children)[i].tag = "point"

\* contact, then remarks, on an event with a point: one container, two children
C21_Witness ==
    /\ Len(built.calls) = 2
    /\ built.calls[1].tag = "contact"
    /\ built.calls[2].tag = "remarks"
    /\ Len(built.event.children) = 2
    /\ built.event.children[1].tag = "point"
    /\ Len(built.event.children[2].children) = 2

\* the uids fetch_and_publish_feed builds for a feed (line 87)
UidsOf(f) == {Uid(f, o) : o \in {None, 0, 1, 2, 3, 4}}

\* no invocation is in the middle of its steps
AllReturned == \A w \in Workers : run[w].pc \in {"idle", "done"}

\* C22: after invocations of fetch_and_publish_feed and clear_feed that ran
\* one at a time and all returned success, the remembered set of every feed
\* is the set of the feed's uids whose most recent published event is a
\* creation.
C22_RememberedIsLive ==
    AllReturned =>
        /\ \A w \in Workers : run[w].pc = "done" => run[w].result.success
        /\ \A f \in Feeds : DictGet(previous_uids, f, {}) = live \cap UidsOf(f)
        /\ live \subseteq UNION {UidsOf(f) : f \in Feeds}

\* a run that returned after it deleted a remembered marker and kept or
\* created another, while the other feed holds markers of its own
C22_Witness ==
    \E w \in Workers :
        LET r == run[w]
        IN  /\ r.pc = "done" /\ r.op = "fetch" /\ r.result.success
            /\ r.removed # {} /\ r.current_uids # {}
            /\ live \cap UidsOf(r.feed) = r.current_uids
            /\ \E g \in Feeds \ {r.feed} : DictGet(previous_uids, g, {}) # {}

\* clear_feed has returned a failure result to the worker
ClearFailed(r) == r.pc = "done" /\ r.op = "clear" /\ ~r.result.success

\* the deletion loop of a clear_feed call has run to its end (lines 170-177)
ClearLoopDone(r) ==
    /\ r.op = "clear"
    /\ r.pc \in {"chclose", "cclose", "clearcommit"} \/ (r.pc = "done" /\ r.committed)

\* C23: when clear_feed returns a failure result, the remembered sets are the
\* ones the call found, whatever it had published by then; the next clear_feed
\* of the feed finds the same set, is no no-op, and publishes one deletion
\* event on each exchange for every uid of it.
C23_FailedClearKeepsSet ==
    LET first == run["w1"]
        later == run["w2"]
        kept == DictGet(first.before, first.feed, {})
    IN  /\ (ClearFailed(first) /\ ~later.committed) => previous_uids = first.before
        /\ ClearFailed(later) => previous_uids = later.before
        /\ (ClearFailed(first) /\ later.pc # "idle") =>
               /\ later.before = first.before
               /\ later.previous = kept
               /\ kept # {}
               /\ later.pc = "done" => ~later.result.success \/ later.committed
        /\ (ClearFailed(first) /\ ClearLoopDone(later)) =>
               \A u \in kept, e \in Exchanges : EventCount(later.sent, e, u, TRUE) = 1

\* a clear_feed that failed after it had published a deletion event on every
\* exchange, followed by one that published the deletions of both uids again
C23_Witness ==
    LET first == run["w1"]
        later == run["w2"]
        kept == DictGet(first.before, first.feed, {})
    IN  /\ ClearFailed(first)
        /\ Cardinality(kept) = 2
        /\ \E u \in kept : \A e \in Exchanges : EventCount(first.sent, e, u, TRUE) = 1
        /\ ClearLoopDone(later) /\ later.pc = "done" /\ later.result.success
        /\ \A u \in kept, e \in Exchanges : EventCount(later.sent, e, u, TRUE) = 1
        /\ previous_uids[first.feed] = {}

====
